---- MODULE Spec2Model ----
(***************************************************************************)
(* Query_result_intersect (sql/sql_intersect.cc, sql/sql_intersect.h): the *)
(* sink that materializes the rows of a set operation into a temporary    *)
(* table.  The state is the object's fields (unit, tmp_table_param,        *)
(* table, m_rows_in_table); the actions are its methods.  The storage      *)
(* layer (handler, create_tmp_table, create_ondisk_from_heap,              *)
(* check_unique_constraint, empty_result_table) is the environment: its    *)
(* answers are inputs drawn with \E.                                       *)
(***************************************************************************)
EXTENDS Integers, Sequences, FiniteSets, TLC

VARIABLES unit, tmp_table_param, table, m_rows_in_table, last, episode

vars == <<unit, tmp_table_param, table, m_rows_in_table, last, episode>>

(* ------------------------------ bounds -------------------------------- *)

\* rows an in-memory (heap) table holds before it reports "table is full"
HeapCap == 1
\* rows a table holds in the model, whatever its engine
MaxRows == 3

\* the rows the producers push
Rows == {<<1, 2>>, <<3, 4>>}

Range(s) == {s[i] : i \in 1..Len(s)}

(* ------------------------- handler error codes ------------------------ *)

HA_OK == "0"
HA_ERR_FOUND_DUPP_KEY == "HA_ERR_FOUND_DUPP_KEY"
HA_ERR_RECORD_FILE_FULL == "HA_ERR_RECORD_FILE_FULL"
HA_ERR_OTHER == "HA_ERR_OTHER"

\* what the storage layer may be made to answer to one write
Faults == {HA_OK, HA_ERR_RECORD_FILE_FULL, HA_ERR_OTHER}

(* ------------------------------ the state ----------------------------- *)

\* table == nullptr
NullTable ==
  [exists |-> FALSE, created |-> FALSE, engine |-> "heap",
   hash_field |-> FALSE, unique_key |-> FALSE, index_inited |-> FALSE,
   ignore_dup_key |-> FALSE, rows |-> <<>>]

\* unit == nullptr
NullUnit == [exists |-> FALSE, is_recursive |-> FALSE, mixed |-> FALSE]

\* Temp_table_param(): the flags a fresh parameter object carries
Temp_table_param ==
  [can_use_pk_for_unique |-> TRUE, force_hash_field_for_unique |-> FALSE,
   skip_create_table |-> FALSE]

\* the record of the last call: what was asked, what the handler was asked
\* to do during it, and what the call returned
NoCall ==
  [op |-> "new", after_reset |-> FALSE, ret |-> FALSE, row |-> <<>>,
   all |-> FALSE,
   first |-> FALSE, proj_failed |-> FALSE, outcome |-> "none",
   error |-> HA_OK,
   unique_hit |-> FALSE,
   writes |-> 0, retries |-> 0, error2 |-> HA_OK,
   promotions |-> 0, conversions |-> 0, index_inits |-> 0,
   is_duplicate |-> FALSE, empty_failed |-> FALSE,
   distinct |-> FALSE, pre |-> NullTable, pre_count |-> 0]

\* the episode so far (since provisioning or the last reset): the rows
\* send_data was called with, whether one of the calls (or the reset that
\* began the episode) failed, and whether the episode began with a reset of
\* a table that held rows
NewEpisode == [seen |-> {}, failed |-> FALSE, after_reset |-> FALSE]

Init ==
  /\ unit = NullUnit
  /\ tmp_table_param = Temp_table_param
  /\ table = NullTable
  /\ m_rows_in_table = 0
  /\ last = NoCall
  /\ episode = NewEpisode

(* ---------------------- the storage layer (environment) --------------- *)

\* fill_record: TRUE when the values cannot be stored into the row buffer
fill_record(row, projFail) == projFail

\* handler::is_ignorable_error: the duplicate-key class
is_ignorable_error(error) == error = HA_ERR_FOUND_DUPP_KEY

\* handler::ha_index_init(0, false) on the table's hash index
ha_index_init(t) == [t EXCEPT !.index_inited = TRUE]

\* check_unique_constraint: TRUE when the row in the buffer may be written.
\* Without a hash field the check is the engine's own (at write time).  With
\* one, the row is looked up through the hash index; a lookup on an index
\* that is not initialized is undefined, and its answer (ub) is arbitrary.
check_unique_constraint(t, row, ub) ==
  IF ~t.hash_field THEN TRUE
  ELSE IF ~t.index_inited THEN ub
  ELSE row \notin Range(t.rows)

\* handler::ha_write_row: the error code, and the table after the call.
\* fault is the environment's answer when it makes the write fail; an
\* in-memory table is full at HeapCap rows; a unique key rejects a row
\* that is already there.
ha_write_row(t, row, fault) ==
  IF fault # HA_OK THEN [error |-> fault, table |-> t]
  ELSE IF t.engine = "heap" /\ Len(t.rows) >= HeapCap
    THEN [error |-> HA_ERR_RECORD_FILE_FULL, table |-> t]
  ELSE IF t.unique_key /\ row \in Range(t.rows)
    THEN [error |-> HA_ERR_FOUND_DUPP_KEY, table |-> t]
  ELSE [error |-> HA_OK, table |-> [t EXCEPT !.rows = Append(t.rows, row)]]

\* create_ondisk_from_heap(thd, table, error, ignore_last_dup, &is_duplicate):
\* only a full in-memory table is converted; the rows are copied to an
\* on-disk table and the row in the buffer is written to it (once).  A
\* duplicate-key answer to that write is reported through is_duplicate when
\* ignore_last_dup is set; any other failure leaves the table as it was and
\* returns TRUE.  After a conversion the handler is a new one: its index is
\* not initialized.
create_ondisk_from_heap(t, row, error, ignore_last_dup, convFail, fault2) ==
  LET fail(conv, wr, e2) ==
        [failed |-> TRUE, table |-> t, is_duplicate |-> FALSE,
         conversions |-> conv, writes |-> wr, error2 |-> e2]
      disk == [t EXCEPT !.engine = "ondisk", !.index_inited = FALSE]
      w == ha_write_row(disk, row, fault2)
  IN  IF error # HA_ERR_RECORD_FILE_FULL THEN fail(0, 0, HA_OK)
      ELSE IF t.engine # "heap" THEN fail(0, 0, HA_OK)
      ELSE IF convFail THEN fail(1, 0, HA_OK)
      ELSE IF w.error = HA_OK
        THEN [failed |-> FALSE, table |-> w.table, is_duplicate |-> FALSE,
              conversions |-> 1, writes |-> 1, error2 |-> HA_OK]
      ELSE IF is_ignorable_error(w.error) /\ ignore_last_dup
        THEN [failed |-> FALSE, table |-> disk, is_duplicate |-> TRUE,
              conversions |-> 1, writes |-> 1, error2 |-> w.error]
      ELSE fail(1, 1, w.error)

\* create_tmp_table(thd, param, fields, nullptr, distinct, ...): the table,
\* or NullTable when it cannot be allocated.  Deduplication is by a hash
\* field when the parameters force it or forbid the native key, by the
\* engine's unique key otherwise; the first representation is the engine's
\* choice.
create_tmp_table(param, distinct, allocFail, eng) ==
  IF allocFail THEN NullTable
  ELSE LET hash == distinct /\ (param.force_hash_field_for_unique
                                \/ ~param.can_use_pk_for_unique)
       IN  [exists |-> TRUE, created |-> ~param.skip_create_table,
            engine |-> eng, hash_field |-> hash,
            unique_key |-> distinct /\ ~hash, index_inited |-> FALSE,
            ignore_dup_key |-> FALSE, rows |-> <<>>]

\* handler::ha_extra(HA_EXTRA_IGNORE_DUP_KEY)
ha_extra_ignore_dup_key(t) == [t EXCEPT !.ignore_dup_key = TRUE]

\* TABLE::empty_result_table: TRUE on failure; the contents are emptied, the
\* schema and the uniqueness mechanism stay
empty_result_table(t, emptyFail) ==
  IF emptyFail THEN [failed |-> TRUE, table |-> t]
  ELSE [failed |-> FALSE, table |-> [t EXCEPT !.rows = <<>>]]

(* ------------------------ Query_result_intersect ---------------------- *)

\* the query expressions prepare() may be handed
Units ==
  {[exists |-> TRUE, is_recursive |-> r, mixed |-> m] : r, m \in BOOLEAN}

\* the deduplication in force on a table
Mechanism(t) ==
  IF t.hash_field THEN "HashPseudoKey"
  ELSE IF t.unique_key THEN "NativeUniqueKey"
  ELSE "NoDeduplication"

\* prepare(thd, list, u): unit = u; return false.  The callers prepare the
\* sink before they create its table, and unit is read by nothing but
\* create_result_table: calls after that are left out.
prepare(u) ==
  /\ ~table.exists
  /\ unit' = u
  /\ last' = [NoCall EXCEPT !.op = "prepare", !.after_reset = (last.op = "reset" /\ ~last.ret),
                            !.pre = table, !.pre_count = m_rows_in_table]
  /\ UNCHANGED <<tmp_table_param, table, m_rows_in_table, episode>>

\* result_table_param that keeps the flags of the last provisioning instead
\* of starting from a fresh Temp_table_param
result_table_param_stale(u, create_table) ==
  LET p0 == [tmp_table_param EXCEPT !.skip_create_table = ~create_table]
      p1 == IF u.exists /\ u.is_recursive
              THEN [p0 EXCEPT !.can_use_pk_for_unique = FALSE] ELSE p0
  IN  IF u.exists /\ u.mixed
        THEN [p1 EXCEPT !.force_hash_field_for_unique = TRUE] ELSE p1

\* create_result_table, the parameters: a fresh Temp_table_param, then the
\* flags the shape of the query sets
result_table_param(u, create_table) ==
  LET p0 == [Temp_table_param EXCEPT !.skip_create_table = ~create_table]
      p1 == IF u.exists /\ u.is_recursive
              THEN [p0 EXCEPT !.can_use_pk_for_unique = FALSE] ELSE p0
  IN  IF u.exists /\ u.mixed
        THEN [p1 EXCEPT !.force_hash_field_for_unique = TRUE] ELSE p1

\* create_result_table, after create_tmp_table returned a table
result_table_setup(t, create_table) ==
  IF create_table
    THEN LET t1 == ha_extra_ignore_dup_key(t)
         IN  IF t1.hash_field THEN ha_index_init(t1) ELSE t1
    ELSE t

\* create_result_table(thd, column_types, is_intersect_distinct, options,
\*                     table_alias, bit_fields_as_long, create_table)
create_result_table(is_intersect_distinct, create_table, allocFail, eng) ==
  /\ ~table.exists                                 \* assert(table == nullptr)
  /\ LET param == result_table_param(unit, create_table)
         t == create_tmp_table(param, is_intersect_distinct, allocFail, eng)
     IN  /\ tmp_table_param' = param
         /\ table' = IF t.exists THEN result_table_setup(t, create_table)
                                 ELSE t
         /\ last' = [NoCall EXCEPT !.op = "create_result_table",
                                   !.after_reset = (last.op = "reset" /\ ~last.ret), !.ret = ~t.exists,
                                   !.distinct = is_intersect_distinct,
                                   !.index_inits =
                                      IF t.exists /\ create_table
                                         /\ t.hash_field THEN 1 ELSE 0,
                                   !.pre = table,
                                   !.pre_count = m_rows_in_table]
  /\ UNCHANGED <<unit, m_rows_in_table, episode>>

\* what a call that did not reach create_ondisk_from_heap asked of it
NoPromotion ==
  [promotions |-> 0, conversions |-> 0, retries |-> 0,
   is_duplicate |-> FALSE, error2 |-> HA_OK]

\* write_succeeded that counts the row twice
write_succeeded_counts_twice(w, cnt) ==
  [table |-> w.table, count |-> cnt + 2, ret |-> FALSE, index_inits |-> 0]

\* send_data, lines 120-123: the write succeeded
write_succeeded(w, cnt) ==
  [table |-> w.table, count |-> cnt + 1, ret |-> FALSE, index_inits |-> 0]

\* after_create_ondisk that does not count the row the conversion wrote
after_create_ondisk_no_count(c, cnt) ==
  IF c.failed
    THEN [table |-> c.table, count |-> cnt, ret |-> TRUE, index_inits |-> 0]
    ELSE [table |-> IF c.table.hash_field THEN ha_index_init(c.table)
                                          ELSE c.table,
          count |-> cnt, ret |-> FALSE,
          index_inits |-> IF c.table.hash_field THEN 1 ELSE 0]

\* after_create_ondisk that goes on when create_ondisk_from_heap failed
after_create_ondisk_ignores_failure(c, cnt) ==
  [table |-> IF c.table.hash_field THEN ha_index_init(c.table) ELSE c.table,
   count |-> IF ~c.is_duplicate THEN cnt + 1 ELSE cnt,
   ret |-> FALSE,
   index_inits |-> IF c.table.hash_field THEN 1 ELSE 0]

\* after_create_ondisk that forgets the rows counted so far when
\* create_ondisk_from_heap failed
after_create_ondisk_rolls_back(c, cnt) ==
  IF c.failed
    THEN [table |-> c.table, count |-> 0, ret |-> TRUE, index_inits |-> 0]
    ELSE [table |-> IF c.table.hash_field THEN ha_index_init(c.table)
                                          ELSE c.table,
          count |-> IF ~c.is_duplicate THEN cnt + 1 ELSE cnt,
          ret |-> FALSE,
          index_inits |-> IF c.table.hash_field THEN 1 ELSE 0]

\* after_create_ondisk that counts the row whatever is_duplicate says
after_create_ondisk_counts_duplicate(c, cnt) ==
  IF c.failed
    THEN [table |-> c.table, count |-> cnt, ret |-> TRUE, index_inits |-> 0]
    ELSE [table |-> IF c.table.hash_field THEN ha_index_init(c.table)
                                          ELSE c.table,
          count |-> cnt + 1,
          ret |-> FALSE,
          index_inits |-> IF c.table.hash_field THEN 1 ELSE 0]

\* after_create_ondisk that goes on without ha_index_init
after_create_ondisk_no_index_init(c, cnt) ==
  IF c.failed
    THEN [table |-> c.table, count |-> cnt, ret |-> TRUE, index_inits |-> 0]
    ELSE [table |-> c.table,
          count |-> IF ~c.is_duplicate THEN cnt + 1 ELSE cnt,
          ret |-> FALSE,
          index_inits |-> 0]

\* send_data, lines 127-131: after create_ondisk_from_heap returned c
after_create_ondisk(c, cnt) ==
  IF c.failed
    THEN [table |-> c.table, count |-> cnt, ret |-> TRUE, index_inits |-> 0]
    ELSE [table |-> IF c.table.hash_field THEN ha_index_init(c.table)
                                          ELSE c.table,
          count |-> IF ~c.is_duplicate THEN cnt + 1 ELSE cnt,
          ret |-> FALSE,
          index_inits |-> IF c.table.hash_field THEN 1 ELSE 0]

\* write_failed that counts a row the engine rejected as a duplicate
write_failed_counts_duplicate(t, cnt, row, error, convFail, fault2) ==
  IF ~is_ignorable_error(error)
    THEN LET c == create_ondisk_from_heap(t, row, error, TRUE, convFail,
                                          fault2)
         IN  after_create_ondisk(c, cnt)
               @@ [promotions |-> 1, conversions |-> c.conversions,
                   retries |-> c.writes, is_duplicate |-> c.is_duplicate,
                   error2 |-> c.error2]
    ELSE [table |-> t, count |-> cnt + 1, ret |-> FALSE, index_inits |-> 0]
           @@ NoPromotion

\* write_failed that takes every error for an ignorable one
write_failed_ignores_all(t, cnt, row, error, convFail, fault2) ==
  [table |-> t, count |-> cnt, ret |-> FALSE, index_inits |-> 0]
    @@ NoPromotion

\* write_failed that takes no error for an ignorable one
write_failed_no_ignorable(t, cnt, row, error, convFail, fault2) ==
  LET c == create_ondisk_from_heap(t, row, error, TRUE, convFail, fault2)
  IN  after_create_ondisk(c, cnt)
        @@ [promotions |-> 1, conversions |-> c.conversions,
            retries |-> c.writes, is_duplicate |-> c.is_duplicate,
            error2 |-> c.error2]

\* send_data, lines 124-133: the write returned an error
write_failed(t, cnt, row, error, convFail, fault2) ==
  IF ~is_ignorable_error(error)
    THEN LET c == create_ondisk_from_heap(t, row, error, TRUE, convFail,
                                          fault2)
         IN  after_create_ondisk(c, cnt)
               @@ [promotions |-> 1, conversions |-> c.conversions,
                   retries |-> c.writes, is_duplicate |-> c.is_duplicate,
                   error2 |-> c.error2]
    ELSE [table |-> t, count |-> cnt, ret |-> FALSE, index_inits |-> 0]
           @@ NoPromotion

\* send_data_body that goes on to the check and the write when fill_record
\* has failed
send_data_no_proj(t, cnt, row, projFail, ub, fault, convFail, fault2) ==
  LET skip(r, hit) ==
        [table |-> t, count |-> cnt, ret |-> r, index_inits |-> 0,
         proj_failed |-> r, unique_hit |-> hit, writes |-> 0,
         error |-> HA_OK] @@ NoPromotion
      w == ha_write_row(t, row, fault)
      tr == [proj_failed |-> FALSE, unique_hit |-> FALSE, writes |-> 1,
             error |-> w.error]
  IN  IF ~check_unique_constraint(t, row, ub) THEN skip(FALSE, TRUE)
      ELSE IF w.error = HA_OK
        THEN write_succeeded(w, cnt) @@ tr @@ NoPromotion
      ELSE write_failed(t, cnt, row, w.error, convFail, fault2) @@ tr

\* send_data_body that writes the row although check_unique_constraint
\* found it
send_data_no_check(t, cnt, row, projFail, ub, fault, convFail, fault2) ==
  LET skip(r, hit) ==
        [table |-> t, count |-> cnt, ret |-> r, index_inits |-> 0,
         proj_failed |-> r, unique_hit |-> hit, writes |-> 0,
         error |-> HA_OK] @@ NoPromotion
      w == ha_write_row(t, row, fault)
      tr == [proj_failed |-> FALSE,
             unique_hit |-> ~check_unique_constraint(t, row, ub),
             writes |-> 1, error |-> w.error]
  IN  IF fill_record(row, projFail) THEN skip(TRUE, FALSE)
      ELSE IF w.error = HA_OK
        THEN write_succeeded(w, cnt) @@ tr @@ NoPromotion
      ELSE write_failed(t, cnt, row, w.error, convFail, fault2) @@ tr

\* send_data, lines 113-133: the table, the count and the value returned,
\* with what was asked of the storage layer on the way: whether the
\* projection failed, whether the uniqueness check found the row, the
\* writes send_data made and the error of the first, the calls of
\* create_ondisk_from_heap, the conversions it began, the writes it made
\* and the error of its write
send_data_body(t, cnt, row, projFail, ub, fault, convFail, fault2) ==
  LET skip(r, hit) ==
        [table |-> t, count |-> cnt, ret |-> r, index_inits |-> 0,
         proj_failed |-> r, unique_hit |-> hit, writes |-> 0,
         error |-> HA_OK] @@ NoPromotion
      w == ha_write_row(t, row, fault)
      tr == [proj_failed |-> FALSE, unique_hit |-> FALSE, writes |-> 1,
             error |-> w.error]
  IN  IF fill_record(row, projFail) THEN skip(TRUE, FALSE)
      ELSE IF ~check_unique_constraint(t, row, ub) THEN skip(FALSE, TRUE)
      ELSE IF w.error = HA_OK
        THEN write_succeeded(w, cnt) @@ tr @@ NoPromotion
      ELSE write_failed(t, cnt, row, w.error, convFail, fault2) @@ tr

\* what the caller sees of one send_data call (spec section 4.3): a failure
\* is a projection or a storage failure; a success is Inserted when the row
\* went into the table and DuplicateRejected when it did not
Outcome(r, before) ==
  IF r.ret THEN (IF r.proj_failed THEN "ProjectionError" ELSE "StorageFatal")
  ELSE IF Len(r.table.rows) = Len(before.rows) + 1 THEN "Inserted"
  ELSE "DuplicateRejected"

\* send_data(thd, values).  all tells whether the row comes from an ALL
\* branch of the set operation: send_data is not told, and does not use it.
send_data(row, all, projFail, ub, fault, convFail, fault2) ==
  /\ table.exists /\ table.created
  /\ Len(table.rows) < MaxRows
  /\ LET r == send_data_body(table, m_rows_in_table, row, projFail, ub,
                             fault, convFail, fault2)
         out == Outcome(r, table)
     IN  /\ table' = r.table
         /\ m_rows_in_table' = r.count
         /\ last' = [NoCall EXCEPT !.op = "send_data", !.after_reset = (last.op = "reset" /\ ~last.ret),
                                   !.ret = r.ret, !.row = row, !.all = all,
                                   !.first = row \notin episode.seen,
                                   !.proj_failed = projFail,
                                   !.outcome = out, !.error = r.error,
                                   !.unique_hit = r.unique_hit,
                                   !.writes = r.writes,
                                   !.retries = r.retries,
                                   !.error2 = r.error2,
                                   !.promotions = r.promotions,
                                   !.conversions = r.conversions,
                                   !.index_inits = r.index_inits,
                                   !.is_duplicate = r.is_duplicate,
                                   !.pre = table,
                                   !.pre_count = m_rows_in_table]
         /\ episode' = [episode EXCEPT !.seen = episode.seen \cup {row},
                                       !.failed = episode.failed \/ r.ret]
  /\ UNCHANGED <<unit, tmp_table_param>>

\* the episode a reset of table t begins
EpisodeAfterReset(t, emptyFail) ==
  [seen |-> {}, failed |-> t.exists /\ emptyFail,
   after_reset |-> t.exists /\ t.rows # <<>>]

\* reset_body that fails on a table that is already empty
reset_body_fails_on_empty(t, emptyFail) ==
  LET e == empty_result_table(t, emptyFail)
  IN  [count |-> 0,
       table |-> IF t.exists THEN e.table ELSE t,
       ret |-> IF t.exists THEN e.failed \/ t.rows = <<>> ELSE FALSE]

\* reset_body that leaves the count as it is
reset_body_keeps_count(t, emptyFail) ==
  LET e == empty_result_table(t, emptyFail)
  IN  [count |-> m_rows_in_table,
       table |-> IF t.exists THEN e.table ELSE t,
       ret |-> IF t.exists THEN e.failed ELSE FALSE]

\* reset_body that does not return the failure of empty_result_table
reset_body_swallows(t, emptyFail) ==
  LET e == empty_result_table(t, emptyFail)
  IN  [count |-> 0,
       table |-> IF t.exists THEN e.table ELSE t,
       ret |-> FALSE]

\* reset_body that gives the table up its hash field
reset_body_drops_hash_field(t, emptyFail) ==
  LET e == empty_result_table(t, emptyFail)
  IN  [count |-> 0,
       table |-> IF t.exists THEN [e.table EXCEPT !.hash_field = FALSE]
                             ELSE t,
       ret |-> IF t.exists THEN e.failed ELSE FALSE]

\* reset_body that hands back an in-memory table
reset_body_back_to_heap(t, emptyFail) ==
  LET e == empty_result_table(t, emptyFail)
  IN  [count |-> 0,
       table |-> IF t.exists THEN [e.table EXCEPT !.engine = "heap"] ELSE t,
       ret |-> IF t.exists THEN e.failed ELSE FALSE]

\* reset(), lines 218-219: the count, the table and the value returned
reset_body(t, emptyFail) ==
  LET e == empty_result_table(t, emptyFail)
  IN  [count |-> 0,
       table |-> IF t.exists THEN e.table ELSE t,
       ret |-> IF t.exists THEN e.failed ELSE FALSE]

\* reset()
reset(emptyFail) ==
  /\ LET r == reset_body(table, emptyFail)
     IN  /\ m_rows_in_table' = r.count
         /\ table' = r.table
         /\ last' = [NoCall EXCEPT !.op = "reset", !.after_reset = (last.op = "reset" /\ ~last.ret),
                                   !.ret = r.ret,
                                   !.empty_failed = table.exists /\ emptyFail,
                                   !.pre = table,
                                   !.pre_count = m_rows_in_table]
  /\ episode' = EpisodeAfterReset(table, emptyFail)
  /\ UNCHANGED <<unit, tmp_table_param>>

\* cleanup that hands the result of reset to its caller
cleanup_propagates(emptyFail) ==
  /\ LET r == reset_body(table, emptyFail)
     IN  /\ m_rows_in_table' = r.count
         /\ table' = r.table
         /\ last' = [NoCall EXCEPT !.op = "cleanup",
                                   !.after_reset =
                                      (last.op = "reset" /\ ~last.ret),
                                   !.ret = r.ret,
                                   !.empty_failed = table.exists /\ emptyFail,
                                   !.pre = table,
                                   !.pre_count = m_rows_in_table]
  /\ episode' = EpisodeAfterReset(table, emptyFail)
  /\ UNCHANGED <<unit, tmp_table_param>>

\* cleanup(thd): (void)reset()
cleanup(emptyFail) ==
  /\ LET r == reset_body(table, emptyFail)
     IN  /\ m_rows_in_table' = r.count
         /\ table' = r.table
         /\ last' = [NoCall EXCEPT !.op = "cleanup", !.after_reset = (last.op = "reset" /\ ~last.ret),
                                   !.empty_failed = table.exists /\ emptyFail,
                                   !.pre = table,
                                   !.pre_count = m_rows_in_table]
  /\ episode' = EpisodeAfterReset(table, emptyFail)
  /\ UNCHANGED <<unit, tmp_table_param>>

\* the branches a row of table t may come from: an ALL branch when nothing
\* deduplicates, a DISTINCT branch under a native key, either under a hash
\* field
Branches(t) ==
  IF t.hash_field THEN BOOLEAN ELSE IF t.unique_key THEN {FALSE} ELSE {TRUE}

\* a write on table t that meets fault f can end in "table is full" on an
\* in-memory table, the one case that asks for a conversion
Converts(t, f) ==
  /\ t.engine = "heap"
  /\ f = HA_ERR_RECORD_FILE_FULL \/ (f = HA_OK /\ Len(t.rows) >= HeapCap)

\* the answers of the storage layer that one send_data call on table t can
\* meet: <<projFail, ub, fault, convFail, fault2>>.  An answer that the call
\* never asks for is left at its default.
Answers(t) ==
  {<<TRUE, FALSE, HA_OK, FALSE, HA_OK>>}
  \cup UNION {
    {<<FALSE, ub, f, cf, f2>> :
       ub \in (IF t.hash_field /\ ~t.index_inited THEN BOOLEAN ELSE {FALSE}),
       cf \in (IF Converts(t, f) THEN BOOLEAN ELSE {FALSE}),
       f2 \in (IF Converts(t, f) THEN Faults ELSE {HA_OK})} : f \in Faults}

Next ==
  \/ \E u \in Units : prepare(u)
  \/ \E d, c, a \in BOOLEAN, eng \in {"heap", "ondisk"} :
       create_result_table(d, c, a, eng)
  \/ \E row \in Rows, all \in Branches(table), a \in Answers(table) :
       send_data(row, all, a[1], a[2], a[3], a[4], a[5])
  \/ \E ef \in BOOLEAN : reset(ef)
  \/ \E ef \in BOOLEAN : cleanup(ef)

Spec == Init /\ [][Next]_vars

(* ------------------------------ the claims ---------------------------- *)

SendData == last.op = "send_data"

Deduplicates(t) == Mechanism(t) # "NoDeduplication"

\* the outcome of a deduplicating insert that nothing made fail
DedupOutcome == IF last.first THEN "Inserted" ELSE "DuplicateRejected"

\* the conversion to an on-disk table took place during the last call
PromotionDone ==
  SendData /\ last.pre.engine = "heap" /\ table.engine = "ondisk"

\* C1: under a native unique key, as long as no call of the episode failed,
\* RowCount is the number of distinct rows send_data was called with, the
\* first occurrence of a row reports Inserted and every later one
\* DuplicateRejected.
C1_NativeKeyDedup ==
  (table.exists /\ Mechanism(table) = "NativeUniqueKey" /\ ~episode.failed)
    => /\ m_rows_in_table = Cardinality(episode.seen)
       /\ Range(table.rows) = episode.seen
       /\ SendData => last.outcome = DedupOutcome

\* C1, its case: the row <<1, 2>> sent again is rejected and RowCount is 1
C1_Witness ==
  /\ SendData /\ Mechanism(table) = "NativeUniqueKey" /\ ~episode.failed
  /\ last.row = <<1, 2>> /\ ~last.first
  /\ last.outcome = "DuplicateRejected"
  /\ m_rows_in_table = 1 /\ table.rows = << <<1, 2>> >>

\* C2: under a hash pseudo-key, a row that is already stored leaves RowCount
\* as it is when it comes from a DISTINCT branch, and is stored once more
\* (RowCount + 1) when it comes from an ALL branch.
C2_HashKeyAllBranchRetains ==
  (SendData /\ Mechanism(last.pre) = "HashPseudoKey" /\ ~episode.failed
     /\ ~last.first)
    => IF last.all
         THEN m_rows_in_table = last.pre_count + 1
         ELSE m_rows_in_table = last.pre_count
              /\ last.outcome = "DuplicateRejected"

\* the decision table of spec section 4.2
select(distinctnessRequired, queryIsRecursive, mixedAllAndDistinct) ==
  IF ~distinctnessRequired THEN "NoDeduplication"
  ELSE IF queryIsRecursive \/ mixedAllAndDistinct THEN "HashPseudoKey"
  ELSE "NativeUniqueKey"

C4_PromotionPreservesContent ==
  (PromotionDone /\ last.row \notin Range(last.pre.rows))
    => /\ ~last.ret /\ last.outcome = "Inserted"
       /\ table.rows = Append(last.pre.rows, last.row)
       /\ m_rows_in_table = last.pre_count + 1
       /\ ~episode.failed
            => /\ m_rows_in_table = Len(table.rows)
               /\ Deduplicates(table)
                    => m_rows_in_table = Cardinality(episode.seen)

\* C4, its case: a native-key table that holds a row is converted by the
\* write of another row
C4_Witness ==
  /\ PromotionDone /\ last.row \notin Range(last.pre.rows)
  /\ last.pre.rows # <<>> /\ last.error = HA_ERR_RECORD_FILE_FULL
  /\ Mechanism(table) = "NativeUniqueKey" /\ m_rows_in_table = 2

\* C5: when the write and the write of the conversion both answer "table is
\* full", the call has made one conversion and one retry, returns
\* StorageFatal and leaves RowCount and the rows as they were.
C5_PromotionRetryBound ==
  (SendData /\ last.error = HA_ERR_RECORD_FILE_FULL
     /\ last.error2 = HA_ERR_RECORD_FILE_FULL)
    => /\ last.ret /\ last.outcome = "StorageFatal"
       /\ last.promotions = 1 /\ last.conversions = 1
       /\ last.writes = 1 /\ last.retries = 1
       /\ m_rows_in_table = last.pre_count
       /\ table.rows = last.pre.rows

\* C5, its case
C5_Witness ==
  /\ SendData /\ last.error = HA_ERR_RECORD_FILE_FULL
  /\ last.error2 = HA_ERR_RECORD_FILE_FULL /\ last.ret
  /\ last.pre.rows # <<>>

\* C6: a write error that is neither ignorable nor "table is full" makes the
\* call return StorageFatal: nothing is converted, the write is not
\* retried, RowCount and the table are as they were.
C6_OtherErrorIsFatal ==
  (SendData /\ last.error = HA_ERR_OTHER)
    => /\ last.ret /\ last.outcome = "StorageFatal"
       /\ last.conversions = 0 /\ last.retries = 0 /\ last.writes = 1
       /\ m_rows_in_table = last.pre_count
       /\ table = last.pre

\* C6, its case
C6_Witness ==
  /\ SendData /\ last.error = HA_ERR_OTHER /\ last.ret
  /\ last.pre.rows # <<>> /\ m_rows_in_table = 1

\* C7: an ignorable (duplicate-key) write error makes the call report
\* DuplicateRejected: no failure, RowCount and the table as they were, no
\* call of create_ondisk_from_heap; the table was told to ignore duplicate
\* keys when it was provisioned.
C7_IgnorableErrorIsDuplicate ==
  (SendData /\ last.error = HA_ERR_FOUND_DUPP_KEY)
    => /\ ~last.ret /\ last.outcome = "DuplicateRejected"
       /\ m_rows_in_table = last.pre_count
       /\ last.promotions = 0 /\ last.conversions = 0 /\ last.retries = 0
       /\ table = last.pre
       /\ table.ignore_dup_key

\* C7, its case
C7_Witness ==
  /\ SendData /\ last.error = HA_ERR_FOUND_DUPP_KEY /\ ~last.ret
  /\ last.row \in Range(table.rows)

\* the last call is a reset that followed a successful reset, and the
\* storage layer emptied the table
ResetTwice == last.op = "reset" /\ last.after_reset /\ ~last.empty_failed

\* C8: a reset that follows a successful reset succeeds and changes
\* nothing: RowCount was 0 and is 0, the table was empty and is the same
\* table.
C8_ResetIdempotent ==
  ResetTwice
    => /\ ~last.ret
       /\ last.pre_count = 0 /\ m_rows_in_table = 0
       /\ last.pre.rows = <<>> /\ table.rows = <<>>
       /\ table = last.pre

\* C8, its case: the second reset of a provisioned hash-key table
C8_Witness ==
  /\ ResetTwice /\ ~last.ret /\ table.exists /\ table.created
  /\ table.hash_field /\ table.index_inited

\* C9: in an episode begun by the reset of a table that held rows, with no
\* failure, a deduplicating table holds the distinct rows sent in the
\* episode and RowCount is their number: a row sent twice counts once.
C9_EpisodeIsolation ==
  (SendData /\ episode.after_reset /\ ~episode.failed
     /\ Deduplicates(table))
    => /\ m_rows_in_table = Cardinality(episode.seen)
       /\ Range(table.rows) = episode.seen
       /\ last.outcome = DedupOutcome

\* C9, its case: after the reset of a converted table that held rows, R1
\* then R1 again give RowCount 1
C9_Witness ==
  /\ SendData /\ episode.after_reset /\ ~episode.failed
  /\ table.hash_field /\ table.engine = "ondisk"
  /\ episode.seen = {<<3, 4>>} /\ ~last.first
  /\ last.outcome = "DuplicateRejected" /\ m_rows_in_table = 1

\* C10: reset fails exactly when there is a table and emptying it fails;
\* otherwise, also without a table, it succeeds, and RowCount is 0.
C10_ResetFailure ==
  last.op = "reset"
    => /\ last.ret = (last.pre.exists /\ last.empty_failed)
       /\ ~last.pre.exists => ~last.ret
       /\ ~last.ret => m_rows_in_table = 0

\* C10, its case: emptying a table that holds rows fails
C10_Witness ==
  /\ last.op = "reset" /\ last.ret /\ last.empty_failed
  /\ last.pre.rows # <<>> /\ last.pre_count > 0

\* what reset leaves of table t: emptied when there is a table and the
\* storage layer empties it, as it was otherwise
AfterEmptying(t, failed) ==
  IF t.exists /\ ~failed THEN [t EXCEPT !.rows = <<>>] ELSE t

\* C11: cleanup does to the state what reset does (RowCount 0, the table
\* emptied unless emptying fails) and reports nothing to its caller, also
\* when emptying fails: no outcome of it can replace an earlier error.
C11_CleanupDiscardsFailure ==
  last.op = "cleanup"
    => /\ ~last.ret
       /\ m_rows_in_table = 0
       /\ table = AfterEmptying(last.pre, last.empty_failed)

\* C11, its case: emptying fails during the cleanup of a table with rows
C11_Witness ==
  /\ last.op = "cleanup" /\ last.empty_failed
  /\ last.pre.rows # <<>> /\ last.pre_count > 0 /\ ~last.ret

\* the call that led to the next state is a send_data whose projection
\* succeeded
NextSendProjected == last'.op = "send_data" /\ ~last'.proj_failed

\* C12: a send_data whose projection fails returns ProjectionError with no
\* uniqueness check, no write and no conversion, and leaves the table and
\* RowCount as they were; the send_data that follows it is processed as any
\* other: it makes the uniqueness check and, unless the row is found, the
\* write.
C12_ProjectionFailureAbortsRow ==
  [][/\ (last'.op = "send_data" /\ last'.proj_failed)
          => /\ last'.ret /\ last'.outcome = "ProjectionError"
             /\ ~last'.unique_hit /\ last'.writes = 0
             /\ last'.promotions = 0 /\ last'.conversions = 0
             /\ table' = table /\ m_rows_in_table' = m_rows_in_table
     /\ (SendData /\ last.proj_failed /\ NextSendProjected)
          => /\ last'.outcome # "ProjectionError"
             /\ last'.unique_hit \/ last'.writes = 1
             /\ last'.outcome = "Inserted"
                  => /\ m_rows_in_table' = m_rows_in_table + 1
                     /\ table'.rows = Append(table.rows, last'.row)
    ]_vars

\* C12, its case: the projection of a row fails on a table that holds rows
C12_Witness ==
  /\ SendData /\ last.proj_failed /\ last.ret
  /\ table.rows # <<>> /\ m_rows_in_table > 0

\* C13: a send_data that ends in StorageFatal leaves the rows stored before
\* it in the table and RowCount at its value: nothing is rolled back, and
\* the write is retried at most once, by the conversion.
C13_FatalKeepsCommittedRows ==
  (SendData /\ last.ret /\ ~last.proj_failed)
    => /\ last.outcome = "StorageFatal"
       /\ table = last.pre
       /\ m_rows_in_table = last.pre_count
       /\ last.writes = 1 /\ last.retries <= 1 /\ last.promotions = 1

\* C13, its case: the conversion of a table that holds a counted row fails
C13_Witness ==
  /\ SendData /\ last.outcome = "StorageFatal" /\ last.conversions = 1
  /\ table.rows # <<>> /\ m_rows_in_table = Len(table.rows)
  /\ ~episode.after_reset

\* C14: a send_data leaves RowCount or adds exactly 1 to it, and adds 1
\* exactly when its outcome is Inserted; prepare and create_result_table
\* leave it; RowCount only goes down in reset and cleanup, which set it
\* to 0.
C14_RowCountMonotoneInEpisode ==
  [][/\ last'.op = "send_data"
          => /\ m_rows_in_table' \in {m_rows_in_table, m_rows_in_table + 1}
             /\ (m_rows_in_table' = m_rows_in_table + 1)
                  = (last'.outcome = "Inserted")
     /\ last'.op \in {"prepare", "create_result_table"}
          => m_rows_in_table' = m_rows_in_table
     /\ last'.op \in {"reset", "cleanup"} => m_rows_in_table' = 0
     /\ m_rows_in_table' < m_rows_in_table
          => last'.op \in {"reset", "cleanup"}
    ]_vars

\* C14, its case: a second row is inserted through a conversion
C14_Witness ==
  /\ SendData /\ last.outcome = "Inserted" /\ last.conversions = 1
  /\ last.pre_count = 1 /\ m_rows_in_table = 2

\* the last call is a send_data of a row that a deduplicating table already
\* held, and its projection succeeded
SentStoredRow ==
  /\ SendData /\ ~last.proj_failed
  /\ Deduplicates(last.pre) /\ last.row \in Range(last.pre.rows)

C16_HashIndexReinitialized ==
  /\ PromotionDone
       => /\ ~last.ret
          /\ table.index_inited = table.hash_field
          /\ last.index_inits = (IF table.hash_field THEN 1 ELSE 0)
  /\ (SendData /\ last.pre.hash_field) => last.pre.index_inited

\* C16, its case: a table with a hash field was converted
C16_Witness ==
  /\ PromotionDone /\ table.hash_field /\ table.index_inited
  /\ last.index_inits = 1 /\ last.outcome = "Inserted"

\* C17: a table has a hash field or a unique key, never both; a table comes
\* into being in create_result_table only, empty, and from then on every
\* step (send_data with or without a conversion, reset, cleanup) leaves it
\* in existence with its hash field and its unique key as they were.
C17_MechanismFixedAtProvisioning ==
  [][ /\ ~(table'.hash_field /\ table'.unique_key)
      /\ (~table.exists /\ table'.exists)
           => last'.op = "create_result_table" /\ table'.rows = <<>>
      /\ table.exists
           => /\ table'.exists
              /\ Mechanism(table') = Mechanism(table)
              /\ table'.hash_field = table.hash_field
              /\ table'.unique_key = table.unique_key ]_vars

\* C17, its case: a converted table with a hash field went through reset
C17_Witness ==
  /\ last.op = "reset" /\ last.pre.engine = "ondisk"
  /\ last.pre.rows # <<>> /\ table.rows = <<>>
  /\ Mechanism(last.pre) = "HashPseudoKey"
  /\ Mechanism(table) = "HashPseudoKey"

\* C18: the engine of an existing table changes only from in-memory to
\* on-disk, only in a send_data that made one conversion and returned
\* without error; an on-disk table stays on-disk through every step, reset
\* and cleanup included, so a table is converted at most once; a send_data
\* on an on-disk table makes no conversion, and when its write answers that
\* the table is full it returns StorageFatal; and a send_data that fails
\* leaves the table exactly as it found it, never a partly converted one.
C18_PromotionOnlyOnce ==
  [][ /\ (table.exists /\ table.engine = "ondisk")
           => table'.engine = "ondisk"
      /\ (table.exists /\ table'.engine # table.engine)
           => /\ last'.op = "send_data" /\ ~last'.ret
              /\ table.engine = "heap" /\ table'.engine = "ondisk"
              /\ last'.conversions = 1
              /\ last'.error = HA_ERR_RECORD_FILE_FULL
      /\ (last'.op = "send_data" /\ table.engine = "ondisk")
           => /\ last'.conversions = 0
              /\ (last'.error = HA_ERR_RECORD_FILE_FULL)
                   => last'.ret /\ last'.outcome = "StorageFatal"
      /\ (last'.op = "send_data" /\ last'.ret) => table' = table ]_vars

\* C18, its case: the write to a converted table answers that it is full
C18_Witness ==
  /\ SendData /\ last.pre.engine = "ondisk" /\ last.pre.rows # <<>>
  /\ last.error = HA_ERR_RECORD_FILE_FULL /\ last.conversions = 0
  /\ last.outcome = "StorageFatal" /\ table = last.pre

\* C19: in every reachable state m_rows_in_table is the number of rows the
\* table holds, after calls that failed as after calls that succeeded.
C19_RowCountIsRowsHeld ==
  table.exists => m_rows_in_table = Len(table.rows)

\* the last call is a send_data whose write found the in-memory table full,
\* whose conversion was made, and whose second write, to the on-disk table,
\* was answered with the duplicate-key error
RetryFoundDuplicate ==
  /\ SendData /\ last.error = HA_ERR_RECORD_FILE_FULL
  /\ last.conversions = 1 /\ last.error2 = HA_ERR_FOUND_DUPP_KEY

\* C20: when the write after a conversion reports a duplicate, send_data
\* returns without error with DuplicateRejected, the count is what it was,
\* the table is now on-disk with the rows it had, and its hash index is
\* initialized again if it has a hash field.
C20_PromotionWithDuplicateRetry ==
  RetryFoundDuplicate
    => /\ ~last.ret /\ last.is_duplicate
       /\ last.outcome = "DuplicateRejected"
       /\ m_rows_in_table = last.pre_count
       /\ last.pre.engine = "heap" /\ table.engine = "ondisk"
       /\ table.rows = last.pre.rows
       /\ last.retries = 1
       /\ table.hash_field => table.index_inited /\ last.index_inits = 1

\* C20, its case: a full in-memory table is sent a row it already holds
C20_Witness ==
  /\ RetryFoundDuplicate /\ last.is_duplicate
  /\ last.row \in Range(table.rows)
  /\ m_rows_in_table = Len(table.rows) /\ m_rows_in_table > 0

====
